---- MODULE Spec2Model ----
(***************************************************************************)
(* A model of RequestContext (src/validator/typebox.ts, lines 36-330): the *)
(* lazily validated, slot-cached view of one incoming request.             *)
(*                                                                         *)
(* Strings are sequences of one-character strings, so that split, decode   *)
(* and parse are computed character by character as the platform does.     *)
(* JavaScript values are tagged records: [t |-> "string", s |-> ...],      *)
(* [t |-> "number", n |-> ...], [t |-> "boolean", b |-> ...],              *)
(* [t |-> "undefined"], [t |-> "null"], [t |-> "object", ref, m].          *)
(***************************************************************************)
EXTENDS Integers, Sequences, FiniteSets, TLC

VARIABLES
  c,        \* #c : the cookie slot
  h,        \* #h : the header slot
  i,        \* #i : the client-identifier slot
  p,        \* #p : the path parameters
  q,        \* #q : the query slot
  qs,       \* #qs: the raw query string
  r,        \* #r : the request (header entries, body stream)
  s,        \* #s : the schema bundle
  last,     \* the outcome of the most recently completed synchronous accessor
  calls,    \* the asynchronous calls (body, blob, buffer, formData) started so far
  nextRef   \* the next fresh object identity

vars == <<c, h, i, p, q, qs, r, s, last, calls, nextRef>>

(***************************************************************************)
(* Bounds of the model.                                                    *)
(***************************************************************************)
\* longest enumerated cookie header (SpecCookies)
MaxCookieLen == 4
\* longest enumerated raw query string (SpecQuery)
MaxQueryLen == 4
\* most header entries of an enumerated request (SpecHeaders)
MaxHeaderEntries == 3
\* most asynchronous calls started on one context
MaxCalls == 2
\* most entries past HeaderCap of a request with many headers (SpecHeaders)
MaxExtraHeaders == 2

(***************************************************************************)
(* JavaScript values.                                                      *)
(***************************************************************************)
Undefined == [t |-> "undefined"]
Null == [t |-> "null"]
Str(x) == [t |-> "string", s |-> x]
Num(x) == [t |-> "number", n |-> x]
Bool(x) == [t |-> "boolean", b |-> x]
\* an object with identity ref and own properties m (a function from keys)
Obj(ref, m) == [t |-> "object", ref |-> ref, m |-> m]
\* the mapping with no keys
EmptyMap == <<>>

\* JavaScript truthiness of the values the context tests
Truthy(v) ==
  CASE v.t = "undefined" -> FALSE
    [] v.t = "null" -> FALSE
    [] v.t = "string" -> v.s # <<>>
    [] v.t = "number" -> v.n # 0
    [] v.t = "boolean" -> v.b
    [] OTHER -> TRUE

\* acc[k] = v
Put(m, k, v) == [x \in DOMAIN m \cup {k} |-> IF x = k THEN v ELSE m[x]]
\* delete m[k]
Delete(m, k) == [x \in DOMAIN m \ {k} |-> m[x]]
\* m[k], undefined when k is no own property
Get(m, k) == IF k \in DOMAIN m THEN m[k] ELSE Undefined

(***************************************************************************)
(* Strings.                                                                *)
(***************************************************************************)
Strings(A, n) == UNION {[1..k -> A] : k \in 0..n}

\* the index of the first occurrence of ch in x at or after from, 0 if none
RECURSIVE IndexOf(_, _, _)
IndexOf(x, ch, from) ==
  IF from > Len(x) THEN 0
  ELSE IF x[from] = ch THEN from
  ELSE IndexOf(x, ch, from + 1)

Tail0(x, from) == SubSeq(x, from, Len(x))

\* String.prototype.split with a one-character separator
RECURSIVE SplitOn(_, _)
SplitOn(x, ch) ==
  LET k == IndexOf(x, ch, 1) IN
  IF k = 0 THEN <<x>>
  ELSE <<SubSeq(x, 1, k - 1)>> \o SplitOn(Tail0(x, k + 1), ch)

UpperAlpha == <<"A","B","C","D","E","F","G","H","I","J","K","L","M",
                "N","O","P","Q","R","S","T","U","V","W","X","Y","Z">>
LowerAlpha == <<"a","b","c","d","e","f","g","h","i","j","k","l","m",
                "n","o","p","q","r","s","t","u","v","w","x","y","z">>

LowerChar(ch) ==
  IF \E k \in 1..26 : UpperAlpha[k] = ch
  THEN LowerAlpha[CHOOSE k \in 1..26 : UpperAlpha[k] = ch]
  ELSE ch

\* String.prototype.toLowerCase
ToLowerCase(x) == [k \in 1..Len(x) |-> LowerChar(x[k])]

(***************************************************************************)
(* decodeURIComponent and JSON.parse, as far as the model's alphabets      *)
(* reach: percent escapes of ASCII bytes are decoded to their character,   *)
(* a malformed escape is a URIError; JSON texts are the literals, the      *)
(* integers and the strings without escapes.                               *)
(***************************************************************************)
HexDigits == <<"0","1","2","3","4","5","6","7","8","9","a","b","c","d","e","f">>

IsHex(ch) == \E k \in 1..16 : HexDigits[k] = LowerChar(ch)
HexVal(ch) == (CHOOSE k \in 1..16 : HexDigits[k] = LowerChar(ch)) - 1

\* the ASCII characters by code (Ascii[b + 1] is the character with code b);
\* a control character, and the grave accent, is written <0xNN>
Ascii == <<
  "<0x00>", "<0x01>", "<0x02>", "<0x03>", "<0x04>", "<0x05>", "<0x06>", "<0x07>",
  "<0x08>", "<0x09>", "<0x0A>", "<0x0B>", "<0x0C>", "<0x0D>", "<0x0E>", "<0x0F>",
  "<0x10>", "<0x11>", "<0x12>", "<0x13>", "<0x14>", "<0x15>", "<0x16>", "<0x17>",
  "<0x18>", "<0x19>", "<0x1A>", "<0x1B>", "<0x1C>", "<0x1D>", "<0x1E>", "<0x1F>",
  " ", "!", "\"", "#", "$", "%", "&", "'",
  "(", ")", "*", "+", ",", "-", ".", "/",
  "0", "1", "2", "3", "4", "5", "6", "7",
  "8", "9", ":", ";", "<", "=", ">", "?",
  "@", "A", "B", "C", "D", "E", "F", "G",
  "H", "I", "J", "K", "L", "M", "N", "O",
  "P", "Q", "R", "S", "T", "U", "V", "W",
  "X", "Y", "Z", "[", "\\", "]", "^", "_",
  "<0x60>", "a", "b", "c", "d", "e", "f", "g",
  "h", "i", "j", "k", "l", "m", "n", "o",
  "p", "q", "r", "s", "t", "u", "v", "w",
  "x", "y", "z", "{", "|", "}", "~", "<0x7F>" >>

\* the byte of the escape %XY at x[k..k+2], -1 when there is no such escape
EscapeByte(x, k) ==
  IF k + 2 <= Len(x) /\ x[k] = "%" /\ IsHex(x[k + 1]) /\ IsHex(x[k + 2])
  THEN 16 * HexVal(x[k + 1]) + HexVal(x[k + 2])
  ELSE -1

\* how many continuation bytes the UTF-8 lead byte b asks for, -1 if b is no lead
Continuations(b) ==
  CASE b >= 194 /\ b <= 223 -> 1
    [] b >= 224 /\ b <= 239 -> 2
    [] b >= 240 /\ b <= 244 -> 3
    [] OTHER -> -1

\* a character outside ASCII (its code point is not tracked)
NonAscii == "<non-ascii>"

\* decodeURIComponent from position k: [ok |-> FALSE] is the URIError
RECURSIVE DecodeFrom(_, _)
DecodeFrom(x, k) ==
  IF k > Len(x) THEN [ok |-> TRUE, s |-> <<>>]
  ELSE IF x[k] # "%" THEN
    LET rest == DecodeFrom(x, k + 1) IN
    IF rest.ok THEN [ok |-> TRUE, s |-> <<x[k]>> \o rest.s] ELSE rest
  ELSE
    LET b == EscapeByte(x, k) IN
    IF b < 0 THEN [ok |-> FALSE]
    ELSE IF b < 128 THEN
      LET rest == DecodeFrom(x, k + 3) IN
      IF rest.ok THEN [ok |-> TRUE, s |-> <<Ascii[b + 1]>> \o rest.s] ELSE rest
    ELSE
      LET n == Continuations(b) IN
      IF n < 0 \/ \E j \in 1..n : LET cb == EscapeByte(x, k + 3 * j) IN cb < 128 \/ cb > 191
      THEN [ok |-> FALSE]
      ELSE
        LET rest == DecodeFrom(x, k + 3 * (n + 1)) IN
        IF rest.ok THEN [ok |-> TRUE, s |-> <<NonAscii>> \o rest.s] ELSE rest

DecodeURIComponent(x) == DecodeFrom(x, 1)

Digits == <<"0","1","2","3","4","5","6","7","8","9">>
IsDigit(ch) == \E k \in 1..10 : Digits[k] = ch
DigitVal(ch) == (CHOOSE k \in 1..10 : Digits[k] = ch) - 1

RECURSIVE DecVal(_)
DecVal(x) ==
  IF x = <<>> THEN 0
  ELSE 10 * DecVal(SubSeq(x, 1, Len(x) - 1)) + DigitVal(x[Len(x)])

\* an unsigned JSON integer: digits, no leading zero
IsJsonNat(x) ==
  /\ Len(x) >= 1
  /\ \A k \in 1..Len(x) : IsDigit(x[k])
  /\ (Len(x) > 1 => x[1] # "0")

JsonWs == {" ", Ascii[10], Ascii[11], Ascii[14]}

RECURSIVE TrimWs(_)
TrimWs(x) ==
  IF x # <<>> /\ x[1] \in JsonWs THEN TrimWs(Tail(x))
  ELSE IF x # <<>> /\ x[Len(x)] \in JsonWs THEN TrimWs(SubSeq(x, 1, Len(x) - 1))
  ELSE x

\* a character that may stand unescaped inside a JSON string
IsJsonStringChar(ch) ==
  /\ ch \notin {"\"", "\\"}
  /\ ~\E b \in 0..31 : Ascii[b + 1] = ch

\* JSON.parse: [ok |-> FALSE] is the SyntaxError
JSONParse(text) ==
  LET x == TrimWs(text) IN
  CASE x = <<"t","r","u","e">> -> [ok |-> TRUE, v |-> Bool(TRUE)]
    [] x = <<"f","a","l","s","e">> -> [ok |-> TRUE, v |-> Bool(FALSE)]
    [] x = <<"n","u","l","l">> -> [ok |-> TRUE, v |-> Null]
    [] IsJsonNat(x) -> [ok |-> TRUE, v |-> Num(DecVal(x))]
    [] Len(x) >= 2 /\ x[1] = "-" /\ IsJsonNat(Tail(x)) ->
         [ok |-> TRUE, v |-> Num(0 - DecVal(Tail(x)))]
    [] Len(x) >= 2 /\ x[1] = "\"" /\ x[Len(x)] = "\""
       /\ \A k \in 2..(Len(x) - 1) : IsJsonStringChar(x[k]) ->
         [ok |-> TRUE, v |-> Str(SubSeq(x, 2, Len(x) - 1))]
    [] OTHER -> [ok |-> FALSE]

(***************************************************************************)
(* The request's headers: entries [key, value] in iteration order.         *)
(***************************************************************************)
RECURSIVE JoinValues(_)
JoinValues(entries) ==
  IF Len(entries) = 1 THEN entries[1].value
  ELSE entries[1].value \o <<",", " ">> \o JoinValues(Tail(entries))

\* Headers.prototype.get: case-insensitive, null when there is no such header
HeadersGet(entries, name) ==
  LET found == SelectSeq(entries, LAMBDA e : ToLowerCase(e.key) = ToLowerCase(name)) IN
  IF found = <<>> THEN Null ELSE Str(JoinValues(found))

\* a ?? b
Coalesce(a, b) == IF a.t \in {"null", "undefined"} THEN b ELSE a

(***************************************************************************)
(* Exceptions and the outcome of a call.                                   *)
(***************************************************************************)
Exception(status) == [name |-> "Exception", status |-> status]
URIError == [name |-> "URIError"]
TypeError == [name |-> "TypeError"]
SyntaxError == [name |-> "SyntaxError"]
DeadlineError == [name |-> "DeadlineError"]

Returned(op, v) == [op |-> op, kind |-> "return", val |-> v]
Thrown(op, e) == [op |-> op, kind |-> "throw", exc |-> e]
NoOutcome == [op |-> "none", kind |-> "none"]

(***************************************************************************)
(* The schema bundle #s: null, or an object whose fields body, cookies,    *)
(* headers and query each hold a schema or are absent.  A schema is opaque *)
(* to the context; the model names a few by what they accept.              *)
(***************************************************************************)
\* this.#s?.field
SchemaOf(bundle, field) == IF bundle.t = "null" THEN "absent" ELSE bundle[field]

KeyA == <<"a">>

\* schema.safeParse(mapping).success, for the object schemas of cookies, headers, query:
\*   any         accepts every mapping
\*   requireA    accepts a mapping whose key a holds a string
\*   strictEmpty accepts only the mapping without keys
Accepts(schema, m) ==
  CASE schema = "any" -> TRUE
    [] schema = "requireA" -> KeyA \in DOMAIN m /\ m[KeyA].t = "string"
    [] schema = "strictEmpty" -> DOMAIN m = {}
    [] OTHER -> FALSE

(***************************************************************************)
(* cookies (lines 156-189).                                                *)
(***************************************************************************)
CookieLimit == 1000

N_cookies == <<"c","o","o","k","i","e","s">>

\* \s of a regular expression, among the characters of a header value
IsWhitespace(ch) == ch \in {" ", Ascii[10]}

RECURSIVE SkipWhitespace(_, _)
SkipWhitespace(x, k) ==
  IF k <= Len(x) /\ IsWhitespace(x[k]) THEN SkipWhitespace(x, k + 1) ELSE k

\* header.split(/;\s*/)
RECURSIVE SplitCookieHeader(_)
SplitCookieHeader(x) ==
  LET k == IndexOf(x, ";", 1) IN
  IF k = 0 THEN <<x>>
  ELSE <<SubSeq(x, 1, k - 1)>> \o SplitCookieHeader(Tail0(x, SkipWhitespace(x, k + 1)))

\* pair.split(/=(.+)/): the pattern needs a character after the "=", and (.+)
\* then takes the rest of the pair; without a match the pair is the one piece
SplitPair(pair) ==
  LET k == IndexOf(pair, "=", 1) IN
  IF k = 0 \/ k = Len(pair) THEN <<pair>>
  ELSE <<SubSeq(pair, 1, k - 1), Tail0(pair, k + 1), <<>> >>

\* the [k, v] of a destructured array of strings
DestructureKey(parts) == parts[1]
DestructureValue(parts) == IF Len(parts) >= 2 THEN Str(parts[2]) ELSE Undefined

\* .map(...).reduce(..., {}) over the pairs from index k, into acc
RECURSIVE ReduceCookies(_, _, _)
ReduceCookies(pairs, k, acc) ==
  IF k > Len(pairs) THEN acc
  ELSE LET parts == SplitPair(pairs[k]) IN
       ReduceCookies(pairs, k + 1, Put(acc, DestructureKey(parts), DestructureValue(parts)))

\* the try block (lines 161-177): it throws Exception(413), or yields the mapping
CookiesTry(header) ==
  IF Len(header) > CookieLimit
  THEN [threw |-> TRUE, exc |-> Exception(413)]
  ELSE [threw |-> FALSE,
        m |-> Delete(ReduceCookies(SplitCookieHeader(header), 1, EmptyMap), <<>>)]

\* try ... catch (_err) { this.#c = {} } (lines 161-180): the mapping left in #c
CookiesParse(header) ==
  LET t == CookiesTry(header) IN
  IF t.threw THEN EmptyMap ELSE t.m

\* line 157 taking an empty mapping for an unset slot
CookiesCachedUnlessEmpty(slot, bundle) ==
  \/ Truthy(slot) /\ DOMAIN slot.m # {}
  \/ SchemaOf(bundle, "cookies") = "absent"

\* whether the getter returns at line 158 without parsing
CookiesCached(slot, bundle) == Truthy(slot) \/ SchemaOf(bundle, "cookies") = "absent"

Cookies ==
  /\ IF CookiesCached(c, s)
     THEN /\ last' = Returned("cookies", c)
          /\ UNCHANGED <<c, nextRef>>
     ELSE LET header == Coalesce(HeadersGet(r.headers, N_cookies), Str(<<>>)).s
              obj == Obj(nextRef, CookiesParse(header))
          IN /\ c' = obj
             /\ nextRef' = nextRef + 1
             /\ last' = IF Accepts(SchemaOf(s, "cookies"), obj.m)
                        THEN Returned("cookies", obj)
                        ELSE Thrown("cookies", Exception(400))
  /\ UNCHANGED <<h, i, p, q, qs, r, s, calls>>

(***************************************************************************)
(* headers (lines 194-230).                                                *)
(***************************************************************************)
HeaderCap == 50

\* the loop with a counter that advances only when an entry is stored
RECURSIVE HeadersLoopCountsStored(_, _, _, _)
HeadersLoopCountsStored(entries, k, num, acc) ==
  IF k > Len(entries) \/ num = HeaderCap THEN acc
  ELSE LET key == ToLowerCase(entries[k].key) IN
       IF ~Truthy(Get(acc, key))
       THEN HeadersLoopCountsStored(entries, k + 1, num + 1, Put(acc, key, Str(entries[k].value)))
       ELSE HeadersLoopCountsStored(entries, k + 1, num, acc)

\* the for loop (lines 207-217) from entry k, with counter num, into acc
RECURSIVE HeadersLoop(_, _, _, _)
HeadersLoop(entries, k, num, acc) ==
  IF k > Len(entries) \/ num = HeaderCap THEN acc
  ELSE LET key == ToLowerCase(entries[k].key) IN
       IF ~Truthy(Get(acc, key))
       THEN HeadersLoop(entries, k + 1, num + 1, Put(acc, key, Str(entries[k].value)))
       ELSE HeadersLoop(entries, k + 1, num + 1, acc)

HeadersCached(slot) == Truthy(slot)

Headers ==
  /\ IF HeadersCached(h)
     THEN /\ last' = Returned("headers", h)
          /\ UNCHANGED <<h, nextRef>>
     ELSE LET obj == Obj(nextRef, HeadersLoop(r.headers, 1, 0, EmptyMap)) IN
          /\ h' = obj
          /\ nextRef' = nextRef + 1
          /\ last' = IF SchemaOf(s, "headers") # "absent"
                        /\ ~Accepts(SchemaOf(s, "headers"), obj.m)
                     THEN Thrown("headers", Exception(400))
                     ELSE Returned("headers", obj)
  /\ UNCHANGED <<c, i, p, q, qs, r, s, calls>>

(***************************************************************************)
(* query (lines 235-273).                                                  *)
(***************************************************************************)
\* a value of the query string (lines 258-262): JSON.parse(decodeURIComponent(value)),
\* and in the catch decodeURIComponent(value) again, which throws what it threw before
QueryValue(value) ==
  LET d == DecodeURIComponent(value) IN
  IF ~d.ok THEN [threw |-> TRUE, exc |-> URIError]
  ELSE LET j == JSONParse(d.s) IN
       [threw |-> FALSE, v |-> IF j.ok THEN j.v ELSE Str(d.s)]

\* the for loop (lines 245-263) from segment k, into acc; m is what #q holds when
\* the loop ends or throws
RECURSIVE QueryLoop(_, _, _)
QueryLoop(arr, k, acc) ==
  IF k > Len(arr) THEN [threw |-> FALSE, m |-> acc]
  ELSE LET parts == SplitOn(arr[k], "=")
           key == DestructureKey(parts)
           value == DestructureValue(parts)
       IN IF key = <<>> THEN QueryLoop(arr, k + 1, acc)
          ELSE IF value.t = "undefined" THEN QueryLoop(arr, k + 1, Put(acc, key, Bool(TRUE)))
          ELSE LET v == QueryValue(value.s) IN
               IF v.threw THEN [threw |-> TRUE, exc |-> v.exc, m |-> acc]
               ELSE QueryLoop(arr, k + 1, Put(acc, key, v.v))

\* lines 240-264
QueryParse(raw) ==
  IF Truthy(raw) THEN QueryLoop(SplitOn(raw.s, "&"), 1, EmptyMap)
  ELSE [threw |-> FALSE, m |-> EmptyMap]

\* line 236 without its test of the schema
QueryCachedIgnoresSchema(slot, bundle) == Truthy(slot)

\* line 236 testing the cookie slot as well as its own
QueryCachedSharesCookieSlot(slot, bundle) ==
  Truthy(c) \/ Truthy(slot) \/ SchemaOf(bundle, "query") = "absent"

QueryCached(slot, bundle) == Truthy(slot) \/ SchemaOf(bundle, "query") = "absent"

Query ==
  /\ IF QueryCached(q, s)
     THEN /\ last' = Returned("query", q)
          /\ UNCHANGED <<q, nextRef>>
     ELSE LET parsed == QueryParse(qs)
              obj == Obj(nextRef, parsed.m)
          IN /\ q' = obj
             /\ nextRef' = nextRef + 1
             /\ last' = IF parsed.threw THEN Thrown("query", parsed.exc)
                        ELSE IF Accepts(SchemaOf(s, "query"), obj.m)
                        THEN Returned("query", obj)
                        ELSE Thrown("query", Exception(400))
  /\ UNCHANGED <<c, h, i, p, qs, r, s, calls>>

(***************************************************************************)
(* ip, method, param and raw (lines 70-99).                                *)
(***************************************************************************)
\* the request object #r as a returned value: the handle, not a copy
RequestHandle == [t |-> "request"]

\* the names param is called with: one that was supplied, one that was not
ParamNames == {<<"i", "d">>, <<"x">>}

Ip ==
  /\ last' = Returned("ip", i)
  /\ UNCHANGED <<c, h, i, p, q, qs, r, s, calls, nextRef>>

Method ==
  /\ last' = Returned("method", Str(r.method))
  /\ UNCHANGED <<c, h, i, p, q, qs, r, s, calls, nextRef>>

Param ==
  \E name \in ParamNames :
    /\ last' = Returned("param", Get(p, name))
    /\ UNCHANGED <<c, h, i, p, q, qs, r, s, calls, nextRef>>

Raw ==
  /\ last' = Returned("raw", RequestHandle)
  /\ UNCHANGED <<c, h, i, p, q, qs, r, s, calls, nextRef>>

(***************************************************************************)
(* The body stream and the deadline (lines 104-151 and 280-322).           *)
(*                                                                         *)
(* r.bodyUsed is the platform's flag: a read of the live stream sets it at *)
(* once.  r.stream says what a read of the live stream does: "data" (it    *)
(* resolves with r.text, decoded as the read method asks), "error" (it     *)
(* rejects while reading) or "hang" (it never settles).  r.form is what    *)
(* decoding r.text as form data gives.  A request without a body has the   *)
(* stream "none": its bodyUsed stays false and every read of it settles at *)
(* once, as a read of no bytes.                                            *)
(*                                                                         *)
(* resolveWithDeadline(promise, ms) races the read against a timer: each   *)
(* call holds a read and a timer, and whichever of ReadSettle and          *)
(* TimerFire comes first ends the call.                                    *)
(***************************************************************************)
BodyDeadline == 3000
RawDeadline == 2500

N_contentType == <<"c","o","n","t","e","n","t","-","t","y","p","e">>
MultipartFormData ==
  <<"m","u","l","t","i","p","a","r","t","/","f","o","r","m","-","d","a","t","a">>

\* a plain object whose identity is not tracked
Rec(m) == [t |-> "object", m |-> m]

\* schema._def.typeName and, of a union, the typeName of each option
TypeName(schema) ==
  CASE schema = "ZodString" -> "ZodString"
    [] schema \in {"ZodUnionOfStrings", "ZodUnionMixed"} -> "ZodUnion"
    [] schema = "ZodNumber" -> "ZodNumber"
    [] OTHER -> "ZodObject"

UnionOptions(schema) ==
  CASE schema = "ZodUnionOfStrings" -> <<"ZodString", "ZodString">>
    [] schema = "ZodUnionMixed" -> <<"ZodString", "ZodNumber">>
    [] OTHER -> <<>>

\* the condition of lines 115-122
IsStringShaped(schema) ==
  \/ TypeName(schema) = "ZodString"
  \/ /\ TypeName(schema) = "ZodUnion"
     /\ \A k \in 1..Len(UnionOptions(schema)) : UnionOptions(schema)[k] = "ZodString"

\* schema.safeParse(body), for the body schemas:
\*   ZodString, ZodUnionOfStrings  accept a string
\*   ZodUnionMixed                 accepts a string or a number
\*   ZodNumber                     accepts a number
\*   ZodObjectA                    accepts an object whose key a holds a string,
\*                                 and its data keeps the key a alone
SafeParse(schema, v) ==
  CASE schema \in {"ZodString", "ZodUnionOfStrings"} ->
         [success |-> v.t = "string", data |-> v]
    [] schema = "ZodUnionMixed" ->
         [success |-> v.t \in {"string", "number"}, data |-> v]
    [] schema = "ZodNumber" ->
         [success |-> v.t = "number", data |-> v]
    [] schema = "ZodObjectA" ->
         IF v.t = "object" /\ KeyA \in DOMAIN v.m /\ v.m[KeyA].t = "string"
         THEN [success |-> TRUE, data |-> Rec([x \in {KeyA} |-> v.m[x]])]
         ELSE [success |-> FALSE, data |-> Undefined]
    [] OTHER -> [success |-> FALSE, data |-> Undefined]

\* the strategies tested in another order: form data before text
BodyStrategyFormFirst(bundle, req) ==
  IF bundle.transform = TRUE
     /\ HeadersGet(req.headers, N_contentType) = Str(MultipartFormData)
  THEN "formData"
  ELSE IF IsStringShaped(bundle.body) THEN "text" ELSE "json"

\* lines 115-138: which read of the request body() starts
BodyStrategy(bundle, req) ==
  IF IsStringShaped(bundle.body) THEN "text"
  ELSE IF bundle.transform = TRUE
          /\ HeadersGet(req.headers, N_contentType) = Str(MultipartFormData)
       THEN "formData"
       ELSE "json"

\* what a read of the body by method yields once the stream has delivered r.text
ReadResult(method, req) ==
  CASE method = "text" -> [ok |-> TRUE, v |-> Str(req.text)]
    [] method = "json" ->
         LET j == JSONParse(req.text) IN
         IF j.ok THEN [ok |-> TRUE, v |-> j.v] ELSE [ok |-> FALSE, exc |-> SyntaxError]
    [] method = "formData" ->
         IF req.form.ok THEN [ok |-> TRUE, v |-> [t |-> "formdata", entries |-> req.form.entries]]
         ELSE [ok |-> FALSE, exc |-> TypeError]
    [] method = "blob" -> [ok |-> TRUE, v |-> [t |-> "blob", bytes |-> req.text]]
    [] OTHER -> [ok |-> TRUE, v |-> [t |-> "arraybuffer", bytes |-> req.text]]

\* lines 131-135: the entries of the form data as a plain object
RECURSIVE FlattenEntries(_, _, _)
FlattenEntries(entries, k, acc) ==
  IF k > Len(entries) THEN acc
  ELSE FlattenEntries(entries, k + 1, Put(acc, entries[k].key, Str(entries[k].value)))

\* the value of `body` after the awaited read (lines 123, 129-137)
BodyDecoded(method, v) ==
  IF method = "formData" THEN Rec(FlattenEntries(v.entries, 1, EmptyMap)) ELSE v

\* line 141 without the instanceof test: every failure of the read is a 400
BodyCatchAlwaysBadRequest(err) == Exception(400)

\* the catch of lines 139-141 with the two statuses exchanged
BodyCatchExchanged(err) == Exception(IF err = DeadlineError THEN 400 ELSE 413)

\* line 141
BodyCatch(err) == Exception(IF err = DeadlineError THEN 413 ELSE 400)

\* lines 144-150
BodyValidate(schema, body) ==
  LET result == SafeParse(schema, body) IN
  IF ~result.success THEN Thrown("body", Exception(400))
  ELSE Returned("body", result.data)

\* body() from its await on: settled is what the race gave, [ok, v] or [ok, exc]
BodyFinish(schema, method, settled) ==
  IF ~settled.ok THEN Thrown("body", BodyCatch(settled.exc))
  ELSE BodyValidate(schema, BodyDecoded(method, settled.v))

\* lines 284-287 without the catch: the failure of the read reaches the caller
RawFinishRethrows(op, settled) ==
  IF settled.ok THEN Returned(op, settled.v) ELSE Thrown(op, settled.exc)

\* lines 284-287 with a catch that lets the DeadlineError through
RawFinishDeadlineEscapes(op, settled) ==
  IF settled.ok THEN Returned(op, settled.v)
  ELSE IF settled.exc = DeadlineError THEN Thrown(op, settled.exc)
  ELSE Returned(op, Null)

\* blob(), buffer(), formData() from their await on (lines 284-287 and alike)
RawFinish(op, settled) ==
  IF settled.ok THEN Returned(op, settled.v) ELSE Returned(op, Null)

\* Request.prototype.clone: it throws a TypeError when the body is used
CloneThrows(req) == req.bodyUsed

NoValue == [t |-> "none"]

NewCall(op, used, via, method, read, timer, outcome) ==
  [op |-> op, usedAtStart |-> used, via |-> via, method |-> method,
   read |-> read, timer |-> timer, result |-> NoValue, outcome |-> outcome]

Awaiting(call) == call.outcome.kind = "none"

\* whether the request has a body, and the state of a read started on its unused
\* stream: one of no body has nothing to wait for
HasBody(req) == req.stream # "none"

LiveRead(req) == IF HasBody(req) THEN "pending" ELSE "empty"

\* body() up to its await (lines 104-138)
Body ==
  /\ Len(calls) < MaxCalls
  /\ IF SchemaOf(s, "body") = "absent"
     THEN /\ calls' = Append(calls, NewCall("body", r.bodyUsed, "none", "none", "none", "none",
                                           Returned("body", Undefined)))
          /\ UNCHANGED r
     ELSE /\ calls' = Append(calls, NewCall("body", r.bodyUsed, "live", BodyStrategy(s, r),
                                           IF r.bodyUsed THEN "unusable" ELSE LiveRead(r),
                                           "pending", NoOutcome))
          /\ r' = [r EXCEPT !.bodyUsed = HasBody(r)]
  /\ UNCHANGED <<c, h, i, p, q, qs, s, last, nextRef>>

\* the read method of each raw reader
RawMethod(op) ==
  CASE op = "blob" -> "blob"
    [] op = "buffer" -> "arrayBuffer"
    [] OTHER -> "formData"

\* blob(), buffer(), formData() up to their await (lines 280-284 and alike)
RawStart(op) ==
  /\ Len(calls) < MaxCalls
  /\ IF r.bodyUsed
     THEN IF CloneThrows(r)
          THEN /\ calls' = Append(calls, NewCall(op, TRUE, "clone", RawMethod(op), "none", "none",
                                                RawFinish(op, [ok |-> FALSE, exc |-> TypeError])))
               /\ UNCHANGED r
          ELSE /\ calls' = Append(calls, NewCall(op, TRUE, "clone", RawMethod(op), "pending",
                                                "pending", NoOutcome))
               /\ UNCHANGED r
     ELSE /\ calls' = Append(calls, NewCall(op, FALSE, "live", RawMethod(op), LiveRead(r),
                                           "pending", NoOutcome))
          /\ r' = [r EXCEPT !.bodyUsed = HasBody(r)]
  /\ UNCHANGED <<c, h, i, p, q, qs, s, last, nextRef>>

Blob == RawStart("blob")
Buffer == RawStart("buffer")
FormData == RawStart("formData")

\* what the race gives the awaiting call
Finish(call, settled) ==
  IF call.op = "body" THEN BodyFinish(SchemaOf(s, "body"), call.method, settled)
  ELSE RawFinish(call.op, settled)

\* what the read of call k settles with
Settlement(call) ==
  IF call.read = "unusable" \/ r.stream = "error"
  THEN [ok |-> FALSE, exc |-> TypeError]
  ELSE ReadResult(call.method, r)

\* the read of call k settles; a call still awaiting it resumes and ends, and its
\* timer is cleared.  A call the deadline has ended is left as it is.
ReadSettle(k) ==
  /\ k \in 1..Len(calls)
  /\ calls[k].read \in {"pending", "unusable", "empty"}
  /\ calls[k].read = "pending" => r.stream # "hang"
  /\ LET call == calls[k]
         settled == Settlement(call)
         done == [call EXCEPT !.read = IF settled.ok THEN "resolved" ELSE "rejected",
                              !.result = IF settled.ok THEN settled.v ELSE NoValue]
     IN calls' = [calls EXCEPT ![k] =
                    IF Awaiting(call)
                    THEN [done EXCEPT !.timer = "cleared", !.outcome = Finish(call, settled)]
                    ELSE done]
  /\ UNCHANGED <<c, h, i, p, q, qs, r, s, last, nextRef>>

\* the deadline of call k expires before its read has settled
TimerFire(k) ==
  /\ k \in 1..Len(calls)
  /\ calls[k].timer = "pending"
  /\ calls[k].read = "pending"
  /\ calls' = [calls EXCEPT ![k] =
                 [@ EXCEPT !.timer = "fired",
                           !.outcome = Finish(calls[k], [ok |-> FALSE, exc |-> DeadlineError])]]
  /\ UNCHANGED <<c, h, i, p, q, qs, r, s, last, nextRef>>

(***************************************************************************)
(* Construction (lines 52-68) and the inputs of the specifications.        *)
(***************************************************************************)
Bundle(body, cookies, headers, query, transform) ==
  [t |-> "object", body |-> body, cookies |-> cookies, headers |-> headers,
   query |-> query, transform |-> transform]

Entry(key, value) == [key |-> key, value |-> value]

Request(entries, stream, text, form) ==
  [method |-> <<"P", "O", "S", "T">>, headers |-> entries, bodyUsed |-> FALSE,
   stream |-> stream, text |-> text, form |-> form]

Params == (<<"i", "d">> :> Str(<<"1">>))

\* a constructor that assigns the client identifier
ConstructWithClient(params, raw, req, bundle) ==
  /\ c = Undefined
  /\ h = Undefined
  /\ i = Str(<<"1">>)
  /\ p = params
  /\ q = Undefined
  /\ qs = raw
  /\ r = req
  /\ s = bundle
  /\ last = NoOutcome
  /\ calls = <<>>
  /\ nextRef = 1

\* new RequestContext(p, qs, r, s): nothing is read, every slot is unset
Construct(params, raw, req, bundle) ==
  /\ c = Undefined
  /\ h = Undefined
  /\ i = Undefined
  /\ p = params
  /\ q = Undefined
  /\ qs = raw
  /\ r = req
  /\ s = bundle
  /\ last = NoOutcome
  /\ calls = <<>>
  /\ nextRef = 1

FieldSchemas == {"absent", "any", "requireA", "strictEmpty"}
BodySchemas == {"absent", "ZodString", "ZodUnionOfStrings", "ZodUnionMixed", "ZodNumber", "ZodObjectA"}

\* a cookie header of CookieLimit + 1 characters, and one that holds a pair
LongCookie == [k \in 1..(CookieLimit + 1) |-> "a"]
LongCookiePair == [k \in 1..(CookieLimit + 1) |-> IF k = 2 THEN "=" ELSE "a"]
\* a=1; b=2; c=
ExampleCookie == <<"a","=","1",";"," ","b","=","2",";"," ","c","=">>
\* a=1&b=true&c=%22x%22&d
ExampleQuery ==
  <<"a","=","1","&","b","=","t","r","u","e","&","c","=","%","2","2","x","%","2","2","&","d">>

NoForm == [ok |-> FALSE]
FormAB == [ok |-> TRUE, entries |-> <<Entry(<<"a">>, <<"x">>), Entry(<<"b">>, <<"y">>)>>]

\* --- the three accessors on a few requests, every choice of field schemas ---
SyncHeaders ==
  { <<>>,
    <<Entry(N_cookies, <<"a","=","1">>), Entry(<<"A">>, <<"1">>)>>,
    <<Entry(N_cookies, <<"b","=">>), Entry(<<"X">>, <<>>), Entry(<<"x">>, <<"2">>)>>,
    <<Entry(N_cookies, LongCookie)>> }

SyncQueries ==
  { Undefined, Str(<<"a","=","x">>), Str(<<"a","=","1","&","b">>), Str(<<"b","&","a","=","%">>) }

InitSync ==
  \E ck \in FieldSchemas, hd \in FieldSchemas, qr \in FieldSchemas,
     entries \in SyncHeaders, raw \in SyncQueries :
    Construct(Params, raw, Request(entries, "data", <<"1">>, NoForm),
              Bundle("absent", ck, hd, qr, FALSE))

NextSync == Cookies \/ Headers \/ Query

SpecSync == InitSync /\ [][NextSync]_vars

\* --- contexts without a bundle or without some field schemas ---
UnvalidatedBundles ==
  { Null,
    Bundle("absent", "absent", "absent", "absent", TRUE),
    Bundle("absent", "any", "any", "absent", FALSE),
    Bundle("ZodString", "absent", "absent", "any", FALSE) }

UnvalidatedHeaders ==
  { <<Entry(N_cookies, <<"a","=","1">>)>>,
    <<Entry(N_cookies, LongCookiePair)>> }

UnvalidatedQueries == { Undefined, Str(<<"a","=","x">>), Str(<<"a","=","%">>), Str(<<"=","&","&">>) }

InitUnvalidated ==
  \E bundle \in UnvalidatedBundles, entries \in UnvalidatedHeaders,
     raw \in UnvalidatedQueries, stream \in {"data", "hang"} :
    Construct(Params, raw, Request(entries, stream, <<"1">>, NoForm), bundle)

NextUnvalidated ==
  \/ Cookies
  \/ Query
  \/ Body
  \/ Blob
  \/ \E k \in 1..Len(calls) : ReadSettle(k)
  \/ \E k \in 1..Len(calls) : TimerFire(k)

SpecUnvalidated == InitUnvalidated /\ [][NextUnvalidated]_vars

\* --- the body readers on every body schema, stream behaviour and content type ---
\* multipart/form-data with a parameter after it
MultipartWithParameter == MultipartFormData \o <<";", "b", "=", "x">>

BodyHeaders ==
  { <<>>,
    <<Entry(N_contentType, MultipartFormData)>>,
    <<Entry(N_contentType, MultipartWithParameter)>> }

BodyTexts == { <<"1">>, <<"x">> }

\* a request without a body
Bodyless(entries) == Request(entries, "none", <<>>, NoForm)

InitBody ==
  \E b \in BodySchemas, tr \in BOOLEAN, entries \in BodyHeaders :
    \E req \in {Request(entries, stream, text, form) :
                  stream \in {"data", "error", "hang"}, text \in BodyTexts,
                  form \in {NoForm, FormAB}}
               \cup {Bodyless(entries)} :
      Construct(Params, Undefined, req, Bundle(b, "absent", "absent", "absent", tr))

NextBody ==
  \/ Body
  \/ Blob
  \/ Buffer
  \/ FormData
  \/ \E k \in 1..MaxCalls : ReadSettle(k)
  \/ \E k \in 1..MaxCalls : TimerFire(k)

SpecBody == InitBody /\ [][NextBody]_vars

\* --- cookies on every short header ---
CookieAlphabet == {"a", "b", "=", ";", " "}

CookieHeaders ==
  {<<>>}
  \cup {<<Entry(N_cookies, x)>> : x \in Strings(CookieAlphabet, MaxCookieLen)}
  \cup {<<Entry(N_cookies, x)>> : x \in {ExampleCookie, LongCookie, LongCookiePair}}

InitCookies ==
  \E ck \in FieldSchemas \ {"absent"}, entries \in CookieHeaders :
    Construct(Params, Undefined, Request(entries, "data", <<"1">>, NoForm),
              Bundle("absent", ck, "absent", "absent", FALSE))

NextCookies == Cookies

SpecCookies == InitCookies /\ [][NextCookies]_vars

\* --- headers on every short list of entries ---
HeaderKeys == {<<"x">>, <<"X">>, <<"a">>}
HeaderValues == {<<>>, <<"1">>, <<"2">>}

HeaderEntries == {Entry(k, v) : k \in HeaderKeys, v \in HeaderValues}

\* requests with about HeaderCap entries: entry k is named h<k> and holds the last
\* digit of k, except that the entries at the positions dup repeat the name h01
HeaderName(k) == <<"h", Digits[(k \div 10) + 1], Digits[(k % 10) + 1]>>

ManyHeaders(n, dup) ==
  [k \in 1..n |-> Entry(HeaderName(IF k \in dup THEN 1 ELSE k), <<Digits[(k % 10) + 1]>>)]

ManyHeaderLists ==
  { ManyHeaders(n, dup) : n \in (HeaderCap - 1)..(HeaderCap + MaxExtraHeaders),
                          dup \in {{}, {2}, {2, 3}} }

InitHeaders ==
  \E hd \in {"absent", "any", "requireA"}, n \in 0..MaxHeaderEntries :
    \E entries \in [1..n -> HeaderEntries] \cup ManyHeaderLists :
      Construct(Params, Undefined, Request(entries, "data", <<"1">>, NoForm),
                Bundle("absent", "absent", hd, "absent", FALSE))

NextHeaders == Headers

SpecHeaders == InitHeaders /\ [][NextHeaders]_vars

\* --- query on every short raw query string ---
QueryAlphabet == {"a", "=", "&", "%", "1", "2"}

QueryStrings ==
  {Undefined}
  \cup {Str(x) : x \in Strings(QueryAlphabet, MaxQueryLen)}
  \cup {Str(ExampleQuery)}

InitQuery ==
  \E qr \in {"any", "requireA"}, raw \in QueryStrings :
    Construct(Params, raw, Request(<<>>, "data", <<"1">>, NoForm),
              Bundle("absent", "absent", "absent", qr, FALSE))

NextQuery == Query

SpecQuery == InitQuery /\ [][NextQuery]_vars

\* --- one context, every operation ---
Bundles ==
  { Null,
    Bundle("ZodNumber", "any", "any", "any", FALSE),
    Bundle("ZodString", "requireA", "requireA", "requireA", FALSE),
    Bundle("ZodObjectA", "strictEmpty", "absent", "strictEmpty", TRUE) }

Requests ==
  { Request(<<Entry(N_cookies, <<"b","=","1">>), Entry(<<"A">>, <<"1">>)>>, "data", <<"1">>, FormAB),
    Request(<<Entry(N_contentType, MultipartFormData)>>, "hang", <<"1">>, FormAB) }

Queries == { Str(<<"a","=","x">>), Str(<<"a","=","%">>) }

Init ==
  \E bundle \in Bundles, req \in Requests, raw \in Queries :
    Construct(Params, raw, req, bundle)

Next ==
  \/ Cookies
  \/ Headers
  \/ Query
  \/ Body
  \/ Blob
  \/ Buffer
  \/ FormData
  \/ \E k \in 1..MaxCalls : ReadSettle(k)
  \/ \E k \in 1..MaxCalls : TimerFire(k)

Spec == Init /\ [][Next]_vars

\* --- every operation of the context, on one bundle ---
AccessorBundle == Bundle("ZodNumber", "requireA", "any", "strictEmpty", TRUE)

\* a request whose cookies and body pass, with a query string that cannot be decoded
InitAccessors ==
  Construct(Params, Str(<<"a","=","%">>),
            Request(<<Entry(N_cookies, <<"a","=","1">>), Entry(<<"A">>, <<"1">>)>>,
                    "data", <<"1">>, FormAB),
            AccessorBundle)

NextAccessors ==
  \/ Ip
  \/ Method
  \/ Param
  \/ Raw
  \/ Cookies
  \/ Headers
  \/ Query
  \/ Body
  \/ Blob
  \/ Buffer
  \/ FormData
  \/ \E k \in 1..Len(calls) : ReadSettle(k)
  \/ \E k \in 1..Len(calls) : TimerFire(k)

SpecAccessors == InitAccessors /\ [][NextAccessors]_vars

\* --- the body readers and their deadlines next to a cached accessor ---
\* a request whose body is delivered with a query that fails validation, and one
\* whose stream errors with a query that cannot be decoded
DeadlineInputs ==
  { <<Request(<<>>, "data", <<"1">>, FormAB), Str(<<"a","=","x">>)>>,
    <<Request(<<>>, "error", <<"1">>, FormAB), Str(<<"a","=","%">>)>> }

InitDeadline ==
  \E input \in DeadlineInputs :
    Construct(Params, input[2], input[1], AccessorBundle)

NextDeadline ==
  \/ Query
  \/ Body
  \/ Blob
  \/ Buffer
  \/ FormData
  \/ \E k \in 1..Len(calls) : ReadSettle(k)
  \/ \E k \in 1..Len(calls) : TimerFire(k)

SpecDeadline == InitDeadline /\ [][NextDeadline]_vars

(***************************************************************************)
(* Properties.                                                             *)
(***************************************************************************)
CachedFields == {"cookies", "headers", "query"}
RawOps == {"blob", "buffer", "formData"}

\* the value of the request's cookies header, as the getter reads it (line 162)
CookieHeader == Coalesce(HeadersGet(r.headers, N_cookies), Str(<<>>)).s

\* C1: with a schema supplied for cookies, headers or query, no access of that
\* accessor returns a mapping its schema rejects, also not an access that follows
\* one which raised.
C1_NoRejectedMappingReturned ==
  (/\ last.kind = "return"
   /\ last.op \in CachedFields
   /\ SchemaOf(s, last.op) # "absent")
  => (/\ last.val.t = "object"
      /\ Accepts(SchemaOf(s, last.op), last.val.m))

\* C2: with a cookies schema supplied, an access of cookies on a request whose
\* cookies header is longer than 1000 characters raises Exception(413).
C2_LongCookieHeaderRaises413 ==
  (/\ last.op = "cookies"
   /\ SchemaOf(s, "cookies") # "absent"
   /\ Len(CookieHeader) > CookieLimit)
  => last = Thrown("cookies", Exception(413))

\* an outcome that is a failure carries Exception with status 400 or 413
Classified(outcome) ==
  outcome.kind = "throw"
    => (outcome.exc.name = "Exception" /\ outcome.exc.status \in {400, 413})

\* C3: every failure raised by body(), cookies, headers or query is an Exception
\* with status 400 or 413.
C3_EveryFailureClassified ==
  /\ Classified(last)
  /\ \A k \in 1..Len(calls) : Classified(calls[k].outcome)

\* C4: a body() call with a body schema ends in exactly one of these ways: the
\* deadline fired before the read settled and it raised Exception(413); the read
\* or the decoding failed and it raised Exception(400); the read resolved and the
\* schema rejected the value and it raised Exception(400); the read resolved, the
\* schema accepted and it returned the schema's data.
C4_BodyOutcomes ==
  \A k \in 1..Len(calls) :
    LET call == calls[k] IN
    (call.op = "body" /\ SchemaOf(s, "body") # "absent" /\ ~Awaiting(call))
    => CASE call.timer = "fired" ->
              call.outcome = Thrown("body", Exception(413))
         [] call.timer = "cleared" /\ call.read = "rejected" ->
              call.outcome = Thrown("body", Exception(400))
         [] call.timer = "cleared" /\ call.read = "resolved" ->
              LET result == SafeParse(SchemaOf(s, "body"), BodyDecoded(call.method, call.result)) IN
              IF result.success
              THEN call.outcome = Returned("body", result.data)
              ELSE call.outcome = Thrown("body", Exception(400))
         [] OTHER -> FALSE

\* a body() call returned the schema's data, which is not the value it decoded
C4_Witness ==
  \E k \in 1..Len(calls) :
    /\ calls[k].op = "body"
    /\ calls[k].read = "resolved"
    /\ calls[k].outcome.kind = "return"
    /\ calls[k].outcome.val # BodyDecoded(calls[k].method, calls[k].result)
    /\ calls[k].outcome.val = Rec(KeyA :> Str(<<"x">>))

\* C5: blob(), buffer() and formData() never raise: a call that has ended returned
\* the result of its read or null, and a call that has not ended still has its
\* deadline pending.
C5_RawReadersNeverRaise ==
  \A k \in 1..Len(calls) :
    LET call == calls[k] IN
    call.op \in RawOps
    => IF Awaiting(call) THEN call.timer = "pending"
       ELSE /\ call.outcome.kind = "return"
            /\ \/ call.outcome.val = Null
               \/ /\ call.read = "resolved"
                  /\ call.timer = "cleared"
                  /\ call.outcome.val = call.result

\* a raw reader whose read of the live stream failed while reading returned null
C5_Witness ==
  \E k \in 1..Len(calls) :
    /\ calls[k].op \in RawOps
    /\ r.stream = "error"
    /\ calls[k].via = "live"
    /\ calls[k].read = "rejected"
    /\ calls[k].outcome = Returned(calls[k].op, Null)

\* C6: a populated cache slot (an empty mapping counts) is never changed by any
\* operation, and an access of its accessor returns that very object without
\* building another one.
C6_SlotsPopulatedOnce ==
  [][/\ Truthy(c) => c' = c
     /\ Truthy(h) => h' = h
     /\ Truthy(q) => q' = q
     /\ (Truthy(c) /\ Cookies) => (last' = Returned("cookies", c) /\ nextRef' = nextRef)
     /\ (Truthy(h) /\ Headers) => (last' = Returned("headers", h) /\ nextRef' = nextRef)
     /\ (Truthy(q) /\ Query) => (last' = Returned("query", q) /\ nextRef' = nextRef)]_vars

\* the cookie slot holds the empty mapping, the access that filled it raised, and
\* a later access returned that object
C6_Witness ==
  /\ Truthy(c)
  /\ c.m = EmptyMap
  /\ last = Returned("cookies", c)
  /\ ~Accepts(SchemaOf(s, "cookies"), c.m)

\* C7: a raw reader that starts on a consumed body reads a clone of the request
\* and yields the body's data; one that starts on an unread body reads the live
\* stream and marks it consumed.
C7_ConsumedBodyReadThroughClone ==
  \A k \in 1..Len(calls) :
    LET call == calls[k] IN
    call.op \in RawOps
    => IF call.usedAtStart
       THEN /\ call.via = "clone"
            /\ call.read # "none"
            /\ (/\ ~Awaiting(call)
                /\ call.timer # "fired"
                /\ r.stream = "data"
                /\ ReadResult(call.method, r).ok)
               => call.outcome = Returned(call.op, ReadResult(call.method, r).v)
       ELSE /\ call.via = "live"
            /\ r.bodyUsed

\* the reference parse of a cookie pair: split on its first "=" only
RefCookiePair(pair) ==
  LET k == IndexOf(pair, "=", 1) IN
  IF k = 0 THEN [key |-> pair, value |-> Undefined]
  ELSE [key |-> SubSeq(pair, 1, k - 1), value |-> Str(Tail0(pair, k + 1))]

RECURSIVE RefCookieFold(_, _, _)
RefCookieFold(pairs, k, acc) ==
  IF k > Len(pairs) THEN acc
  ELSE LET kv == RefCookiePair(pairs[k]) IN
       RefCookieFold(pairs, k + 1, IF kv.key = <<>> THEN acc ELSE Put(acc, kv.key, kv.value))

RefCookies(header) == RefCookieFold(SplitCookieHeader(header), 1, EmptyMap)

\* C8: with a cookies schema that accepts any mapping and a header of at most 1000
\* characters, the cookie mapping is the reference parse of the header: pairs split
\* on ";" and optional whitespace, each pair split on its first "=" only, pairs
\* with an empty key dropped, later duplicates overwriting earlier ones.
C8_CookieMappingIsReferenceParse ==
  (/\ Truthy(c)
   /\ SchemaOf(s, "cookies") = "any"
   /\ Len(CookieHeader) <= CookieLimit)
  => c.m = RefCookies(CookieHeader)

\* the reference parse of a query segment's value: URL-decoded, then JSON-parsed,
\* falling back to the decoded string
RefQueryValue(value) ==
  LET d == DecodeURIComponent(value) IN
  IF ~d.ok THEN [ok |-> FALSE]
  ELSE LET j == JSONParse(d.s) IN [ok |-> TRUE, v |-> IF j.ok THEN j.v ELSE Str(d.s)]

RECURSIVE RefQueryFold(_, _, _)
RefQueryFold(arr, k, acc) ==
  IF k > Len(arr) THEN [ok |-> TRUE, m |-> acc]
  ELSE LET eq == IndexOf(arr[k], "=", 1)
           key == IF eq = 0 THEN arr[k] ELSE SubSeq(arr[k], 1, eq - 1)
       IN IF key = <<>> THEN RefQueryFold(arr, k + 1, acc)
          ELSE IF eq = 0 THEN RefQueryFold(arr, k + 1, Put(acc, key, Bool(TRUE)))
          ELSE LET v == RefQueryValue(Tail0(arr[k], eq + 1)) IN
               IF ~v.ok THEN [ok |-> FALSE]
               ELSE RefQueryFold(arr, k + 1, Put(acc, key, v.v))

RefQuery(raw) ==
  IF Truthy(raw) THEN RefQueryFold(SplitOn(raw.s, "&"), 1, EmptyMap)
  ELSE [ok |-> TRUE, m |-> EmptyMap]

\* C9: with a query schema that accepts any mapping, the query mapping is the
\* reference parse of the raw query string: segments split on "&", each split on
\* its first "=" only, a segment without key skipped, a key without "=" mapped to
\* true, any other value URL-decoded and JSON-parsed with the decoded string as
\* fallback.
C9_QueryMappingIsReferenceParse ==
  (/\ last = Returned("query", q)
   /\ Truthy(q)
   /\ SchemaOf(s, "query") = "any"
   /\ RefQuery(qs).ok)
  => q.m = RefQuery(qs).m

\* the first entry whose lower-cased name is key
FirstEntryNamed(entries, key) ==
  entries[CHOOSE k \in 1..Len(entries) :
            /\ ToLowerCase(entries[k].key) = key
            /\ \A j \in 1..(k - 1) : ToLowerCase(entries[j].key) # key]

\* C10: in the header mapping every lower-cased header name holds the value of the
\* first entry with that name in iteration order, whatever that value is.
C10_FirstSeenHeaderValueKept ==
  Truthy(h)
  => \A k \in 1..Len(r.headers) :
       k <= HeaderCap
       => LET key == ToLowerCase(r.headers[k].key) IN
          /\ key \in DOMAIN h.m
          /\ h.m[key] = Str(FirstEntryNamed(r.headers, key).value)

\* C11: the cached header mapping never holds more than 50 entries, and it is made
\* of the first 50 entries in iteration order alone: its names are the lower-cased
\* names of those entries (an entry skipped as a duplicate counts as one of the
\* 50) and each value is the value of one of them.
C11_HeaderMappingFromFirstFifty ==
  Truthy(h)
  => LET n == IF Len(r.headers) < HeaderCap THEN Len(r.headers) ELSE HeaderCap IN
     /\ Cardinality(DOMAIN h.m) <= HeaderCap
     /\ DOMAIN h.m = {ToLowerCase(r.headers[k].key) : k \in 1..n}
     /\ \A key \in DOMAIN h.m :
          \E k \in 1..n : /\ ToLowerCase(r.headers[k].key) = key
                          /\ h.m[key] = Str(r.headers[k].value)

\* more than 50 entries, two of the first 50 skipped as duplicates
C11_Witness ==
  /\ Truthy(h)
  /\ Len(r.headers) > HeaderCap
  /\ Cardinality(DOMAIN h.m) = HeaderCap - 2
  /\ last = Returned("headers", h)

\* C12: a body() call with a body schema starts exactly one read of the request
\* stream, chosen in this order: text when the schema is a string type or a union
\* whose members are all string types; else form data when the transform flag is
\* true and the content-type header is exactly multipart/form-data; else JSON.
C12_BodyReadsByOneStrategy ==
  \A k \in 1..Len(calls) :
    LET call == calls[k] IN
    (call.op = "body" /\ SchemaOf(s, "body") # "absent")
    => /\ call.via = "live"
       /\ call.read # "none"
       /\ call.method =
            IF s.body \in {"ZodString", "ZodUnionOfStrings"} THEN "text"
            ELSE IF s.transform
                    /\ \E j \in 1..Len(r.headers) :
                         /\ ToLowerCase(r.headers[j].key) = N_contentType
                         /\ r.headers[j].value = MultipartFormData
                 THEN "formData"
                 ELSE "json"

\* each strategy has been chosen where an earlier test of the order did not apply:
\* JSON for a union with a member that is no string, under the transform flag and a
\* content-type that only starts with multipart/form-data
C12_Witness ==
  /\ Len(calls) = 1
  /\ calls[1].op = "body"
  /\ calls[1].method = "json"
  /\ calls[1].read = "resolved"
  /\ s.body = "ZodUnionMixed"
  /\ s.transform
  /\ HeadersGet(r.headers, N_contentType) = Str(MultipartWithParameter)

\* C13: without a schema for a field (no bundle, or a bundle without that field's
\* schema) the accessor of body, cookies or query does nothing: it returns
\* undefined and raises nothing, whatever the cookie header or the query string
\* is, its slot stays unset, and body() starts no read, so that the request
\* stream is marked consumed by a raw reader alone.
C13_NoSchemaNoOp ==
  /\ SchemaOf(s, "cookies") = "absent"
     => /\ c = Undefined
        /\ last.op = "cookies" => last = Returned("cookies", Undefined)
  /\ SchemaOf(s, "query") = "absent"
     => /\ q = Undefined
        /\ last.op = "query" => last = Returned("query", Undefined)
  /\ SchemaOf(s, "body") = "absent"
     => /\ \A k \in 1..Len(calls) :
             calls[k].op = "body"
             => /\ calls[k].outcome = Returned("body", Undefined)
                /\ calls[k].via = "none"
                /\ calls[k].read = "none"
                /\ calls[k].timer = "none"
        /\ r.bodyUsed => \E k \in 1..Len(calls) : calls[k].op \in RawOps

\* no bundle, a cookie header of more than 1000 characters and a query string
\* that cannot be decoded: cookies was read last, after two body() calls
C13_Witness ==
  /\ s = Null
  /\ Len(CookieHeader) > CookieLimit
  /\ qs = Str(<<"a","=","%">>)
  /\ last = Returned("cookies", Undefined)
  /\ Len(calls) = 2
  /\ \A k \in 1..2 : calls[k].op = "body"
  /\ ~r.bodyUsed

\* the slots as one value
Slots == <<c, h, i, q>>

\* C14: an invocation of cookies, headers, query, body(), blob(), buffer() or
\* formData() that ends in a raised failure or in a timeout leaves every cache slot
\* as it was before the invocation.
C14_FailureLeavesSlotsAlone ==
  [][/\ (last' # last /\ last'.kind = "throw") => Slots' = Slots
     /\ \A k \in 1..Len(calls') :
          (/\ k > Len(calls) \/ Awaiting(calls[k])
           /\ \/ calls'[k].outcome.kind = "throw"
              \/ calls'[k].timer = "fired")
          => Slots' = Slots]_vars

\* C15: the accessors touch disjoint state.  A step that changes the cookie slot
\* is an access of cookies and changes nothing else of the context, and likewise
\* for headers and query; no access of cookies, headers, query, ip, method, param
\* or raw changes the consumption state of the body stream; body(), blob(),
\* buffer() and formData() change no slot.  So the first access of a cached
\* accessor gives what it gives alone on a fresh context, whatever ran before it.
C15_AccessorsTouchDisjointState ==
  [][/\ c' # c => (last'.op = "cookies" /\ UNCHANGED <<h, i, q, r, calls>>)
     /\ h' # h => (last'.op = "headers" /\ UNCHANGED <<c, i, q, r, calls>>)
     /\ q' # q => (last'.op = "query" /\ UNCHANGED <<c, h, i, r, calls>>)
     /\ last' # last => UNCHANGED <<r, calls>>
     /\ (calls' # calls \/ r' # r) => UNCHANGED <<c, h, i, q, last>>
     /\ (last' # last /\ last'.op = "cookies" /\ ~Truthy(c))
        => /\ Truthy(c')
           /\ c'.m = CookiesParse(CookieHeader)
           /\ last' = IF Accepts(s.cookies, c'.m) THEN Returned("cookies", c')
                      ELSE Thrown("cookies", Exception(400))
     /\ (last' # last /\ last'.op = "headers" /\ ~Truthy(h))
        => /\ Truthy(h')
           /\ h'.m = HeadersLoop(r.headers, 1, 0, EmptyMap)
           /\ last' = Returned("headers", h')
     /\ (last' # last /\ last'.op = "query" /\ ~Truthy(q))
        => /\ Truthy(q')
           /\ q'.m = QueryParse(qs).m
           /\ last' = IF QueryParse(qs).threw THEN Thrown("query", QueryParse(qs).exc)
                      ELSE IF Accepts(s.query, q'.m) THEN Returned("query", q')
                      ELSE Thrown("query", Exception(400))]_vars

\* query was read for the first time after cookies, headers and a body() call that
\* marked the stream consumed
C15_Witness ==
  /\ Truthy(c)
  /\ Truthy(h)
  /\ Truthy(q)
  /\ q.ref > c.ref
  /\ q.ref > h.ref
  /\ last.op = "query"
  /\ r.bodyUsed
  /\ \E k \in 1..Len(calls) : calls[k].op = "body"

\* the calls before call k that read the request stream itself
ConsumedBefore(k) ==
  \E j \in 1..(k - 1) :
    \/ calls[j].op \in RawOps
    \/ calls[j].op = "body" /\ SchemaOf(s, "body") # "absent"

\* the body() calls that have returned a value
BodyValues == {k \in 1..Len(calls) : calls[k].op = "body" /\ calls[k].outcome.kind = "return"}

\* a body() call that has ended raised Exception(400), and no deadline ended it
Raises400(call) ==
  /\ call.timer # "fired"
  /\ Awaiting(call) \/ call.outcome = Thrown("body", Exception(400))

\* C16 as claimed: on a context with a body schema at most one body() call returns
\* a value, and a body() call started when the stream is marked consumed has no
\* other outcome than Exception(400).
C16_AtMostOneBodyValue ==
  SchemaOf(s, "body") # "absent"
  => /\ Cardinality(BodyValues) <= 1
     /\ \A k \in 1..Len(calls) :
          (calls[k].op = "body" /\ calls[k].usedAtStart) => Raises400(calls[k])

\* C16 amended: on a context with a body schema whose request has a body, at most
\* one body() call returns a value, every call after an earlier body(), blob(),
\* buffer() or formData() starts on a stream marked consumed, however that one
\* ended; and on any request a body() call started when the stream is marked
\* consumed has no other outcome than Exception(400): its deadline does not fire
\* and it returns nothing.
C16_AtMostOneBodyValueOfABody ==
  SchemaOf(s, "body") # "absent"
  => /\ HasBody(r) => Cardinality(BodyValues) <= 1
     /\ \A k \in 1..Len(calls) :
          /\ (HasBody(r) /\ ConsumedBefore(k)) => calls[k].usedAtStart
          /\ (calls[k].op = "body" /\ calls[k].usedAtStart) => Raises400(calls[k])

\* a body() call raised 400 after an earlier body() call had returned its value
C16_Witness ==
  /\ HasBody(r)
  /\ Len(calls) = 2
  /\ calls[1].op = "body"
  /\ calls[1].outcome.kind = "return"
  /\ calls[1].outcome.val # Undefined
  /\ calls[2].op = "body"
  /\ calls[2].usedAtStart
  /\ calls[2].outcome = Thrown("body", Exception(400))

\* C17: once the deadline of a call has fired, the call's outcome is final,
\* Exception(413) for body() and null for blob(), buffer() and formData(); the
\* stream stays marked consumed; and the step in which the abandoned read settles
\* changes neither that outcome, nor a slot, nor what any other call or accessor
\* gave its caller.
C17_DeadlineOutcomeIsFinal ==
  [][\A k \in 1..Len(calls) :
       calls[k].timer = "fired"
       => /\ calls[k].outcome = IF calls[k].op = "body"
                                 THEN Thrown("body", Exception(413))
                                 ELSE Returned(calls[k].op, Null)
          /\ calls'[k].outcome = calls[k].outcome
          /\ calls'[k].timer = "fired"
          /\ r.bodyUsed /\ r'.bodyUsed
          /\ calls'[k].read # calls[k].read
             => /\ UNCHANGED <<c, h, i, q, last, r>>
                /\ Len(calls') = Len(calls)
                /\ \A j \in 1..Len(calls) : j # k => calls'[j] = calls[j]]_vars

\* the read of a body() call that the deadline ended with 413 has rejected since,
\* and that of a raw reader it ended with null has resolved since, on a context
\* whose query slot is populated
C17_Witness ==
  /\ Truthy(q)
  /\ \E k \in 1..Len(calls) :
       /\ calls[k].timer = "fired"
       /\ calls[k].read \in {"resolved", "rejected"}
       /\ calls[k].outcome \in {Thrown("body", Exception(413))}
                               \cup {Returned(op, Null) : op \in RawOps}

\* C18: the client-identifier slot is written neither by the constructor nor by
\* any operation of the context, so that ip returns undefined after every sequence
\* of operations.
C18_IpStaysUndefined ==
  /\ i = Undefined
  /\ last.op = "ip" => last = Returned("ip", Undefined)

\* ip was read after the three cached accessors and a body reader had run
C18_Witness ==
  /\ last = Returned("ip", Undefined)
  /\ Truthy(c)
  /\ Truthy(h)
  /\ Truthy(q)
  /\ Len(calls) > 0

====
